---- MODULE Spec2Model ----
(***************************************************************************)
(* TracerCatalogDataSource (nbodykit/plugins/datasource/TracerCatalog.py)  *)
(* run as an SPMD program on a fixed group of MPI workers.                 *)
(*                                                                         *)
(* Lengths are fixed-point integers counting quarters of a length unit, so *)
(* that 0.5*(min+max) and the truncation of astype(int) are exact.         *)
(* Angles count quarter turns, where cos and sin are exactly -1, 0 or 1.   *)
(*                                                                         *)
(* Collectives follow the MPI standard: they are matched in call order on  *)
(* the communicator and need not synchronise.  A non-root worker returns   *)
(* from gather as soon as it has contributed; the root returns from bcast  *)
(* as soon as it has posted; a non-root worker blocks in bcast until the   *)
(* root has posted the matching message; the root blocks in gather until   *)
(* every worker has contributed.                                           *)
(***************************************************************************)
EXTENDS Integers, Sequences, FiniteSets, TLC

VARIABLES
    cfg,          \* attributes set by the plugin framework before __init__
    pc,           \* per worker: position in __init__ / the caller's program
    err,          \* per worker: exception that ended __init__ ("" if none)
    BoxSize,      \* per worker: self.BoxSize
    offset,       \* per worker: self.offset
    nbar,         \* per worker: self.nbar
    source,       \* per worker: self._source
    coords_min,   \* per worker: local of __init__
    coords_max,   \* per worker: local of __init__
    redshifts,    \* per worker: local of __init__
    seen,         \* per worker: the rows self.data has delivered to the __init__
                  \* in progress (history; dropped when __init__ returns)
    warned,       \* per worker: axes for which _define_box logged a warning
    zhist,        \* the histogram step of _set_nbar taken on its own: its
                  \* argument and its locals
    load,         \* a call of nbar_fromfile taken on its own: the file behind
                  \* its argument and its outcome
    boss,         \* a BOSS challenge data source (contrib/BOSSChallengeMock.py):
                  \* its attributes, the row of its file, what readall returned
    gbuf,         \* contributions to the three gathers of __init__
    inbox,        \* per worker: bcast messages posted by the root, not yet received
    coll,         \* per worker: the collectives entered so far, in order
    prog,         \* the calls the (common) caller program has issued so far
    ip,           \* per worker: number of calls of prog completed
    gen,          \* per worker: the frame of the read generator; mid: chunks it
                  \* had yielded when set_source was last called during the pass
    upk,          \* per worker: chunks pulled from the upstream iterator in use
    out,          \* per worker: the chunk read has just yielded (<<>> if none)
    upchunk,      \* on the root: the upstream chunk [coords, weight] the chunk in
                  \* out was computed from (None if none)
    upRows,       \* per worker: rows the upstream source delivered in the latest pass
    outRows,      \* per worker: rows read yielded in the latest pass
    hist          \* per worker, per call: what the call did

vars == <<cfg, pc, err, BoxSize, offset, nbar, source, coords_min, coords_max,
          redshifts, seen, warned, zhist, load, boss, gbuf, inbox, coll, prog, ip, gen, upk, out,
          upchunk, upRows, outRows, hist>>

-----------------------------------------------------------------------------
(* Bounds of the model *)

NumWorkers == 2     \* workers of the communicator
MaxChunks == 2      \* chunks an upstream stream delivers in one pass
MaxRows == 1        \* rows an upstream stream delivers in one read pass
MaxDataRows == 2    \* rows a worker's shard of the data delivers to __init__
MaxOps == 3         \* calls of the caller's program
MaxFileRows == 3    \* rows of an nbar file

-----------------------------------------------------------------------------
(* Values *)

Workers == 0 .. (NumWorkers - 1)
Root == 0
Others == Workers \ {Root}

None == "None"
NoneVec == <<>>
Axes == 1 .. 3

Inf == 1000
NaN == 7777
IntMin == -2000
IntMax == 2000
CastOfInf == {IntMin, IntMax}

NoNbar == [kind |-> "None", z |-> <<>>]
FileNbar == [kind |-> "file", z |-> <<>>]

BoxPadPct == 2
UserBoxSize == <<4, 4, 4>>

IsInf(x) == x = Inf \/ x = -Inf

Min2(a, b) == IF a <= b THEN a ELSE b
Max2(a, b) == IF a >= b THEN a ELSE b
Abs(x) == IF x < 0 THEN -x ELSE x

\* a bug: the running corner is overwritten by the latest chunk's corner
minimum_latest(a, b) == b

minimum(a, b) == [i \in Axes |-> Min2(a[i], b[i])]
maximum(a, b) == [i \in Axes |-> Max2(a[i], b[i])]

RECURSIVE Concat(_)
Concat(ss) == IF ss = <<>> THEN <<>> ELSE Head(ss) \o Concat(Tail(ss))

-----------------------------------------------------------------------------
(* Upstream sources and the cosmology *)

\* (ra, dec, redshift) rows an upstream source can deliver
CoordRows == {<<0, 0, 1>>, <<1, 0, 3>>}
\* the weight an upstream source delivers with a row
UpWeight(c) == c[3] + 1

SeqsUpTo(S, n) == UNION {[1 .. k -> S] : k \in 0 .. n}

\* chunks of self.data.read(['Position']) of at most n rows
PosChunks(n) == SeqsUpTo(CoordRows, n)

\* chunks of self._source.read(['Position', 'Weight']) of at most n rows:
\* two arrays of equal length
PWChunks(n) == {[coords |-> cs, weight |-> [i \in DOMAIN cs |-> UpWeight(cs[i])]] :
                cs \in PosChunks(n)}

UpWeightDtype(src) == IF src = "data" THEN "f8" ELSE "f4"

comoving_distance(z) == 2 * z

Cos(a) == CASE a = 0 -> 1 [] a = 1 -> 0 [] a = 2 -> -1 [] OTHER -> 0
Sin(a) == CASE a = 0 -> 0 [] a = 1 -> 1 [] a = 2 -> 0 [] OTHER -> -1

SubOff(x, t) == IF t = NaN THEN NaN ELSE x + t

_to_cartesian_row(c, translate) ==
    LET r == comoving_distance(c[3])
    IN  <<SubOff(r * Cos(c[1]) * Cos(c[2]), translate[1]),
          SubOff(r * Sin(c[1]) * Cos(c[2]), translate[2]),
          SubOff(r * Sin(c[2]), translate[3])>>

_to_cartesian(coords, translate) ==
    [i \in DOMAIN coords |-> _to_cartesian_row(coords[i], translate)]

ZeroVec == <<0, 0, 0>>

RECURSIVE ColMin(_, _)
ColMin(rows, i) ==
    IF Len(rows) = 1 THEN rows[1][i]
    ELSE Min2(rows[1][i], ColMin(Tail(rows), i))

RECURSIVE ColMax(_, _)
ColMax(rows, i) ==
    IF Len(rows) = 1 THEN rows[1][i]
    ELSE Max2(rows[1][i], ColMax(Tail(rows), i))

\* numpy.amin / numpy.amax over axis 0 of a non-empty list of 3-vectors
amin(rows) == [i \in Axes |-> ColMin(rows, i)]
amax(rows) == [i \in Axes |-> ColMax(rows, i)]

LastCol(coords) == [i \in DOMAIN coords |-> coords[i][3]]

-----------------------------------------------------------------------------
(* _define_box and _set_nbar *)

\* numpy's astype(int) on a non-negative length: truncation to whole units
astype_int(x, ub) == IF IsInf(x) THEN ub ELSE (x \div 4) * 4

\* a bug: a supplied BoxSize is grown to the extent of the data, silently
_define_box_grow(boxsize, cmin, cmax, ub) ==
    LET delta == [i \in Axes |->
                    IF IsInf(cmin[i]) \/ IsInf(cmax[i]) THEN Inf
                    ELSE Abs(cmax[i] - cmin[i])]
        off   == [i \in Axes |->
                    IF IsInf(cmin[i]) \/ IsInf(cmax[i]) THEN NaN
                    ELSE (cmin[i] + cmax[i]) \div 2]
        padded == [i \in Axes |->
                    IF IsInf(delta[i]) THEN Inf
                    ELSE (delta[i] * (100 + BoxPadPct)) \div 100]
    IN  IF boxsize = NoneVec
        THEN [BoxSize |-> [i \in Axes |-> astype_int(padded[i], ub)],
              offset  |-> off,
              warn    |-> {}]
        ELSE [BoxSize |-> [i \in Axes |-> Max2(boxsize[i], delta[i])],
              offset  |-> off,
              warn    |-> {}]

\* ub: what the float-to-int cast of an infinite value produces
_define_box(boxsize, cmin, cmax, ub) ==
    LET delta == [i \in Axes |->
                    IF IsInf(cmin[i]) \/ IsInf(cmax[i]) THEN Inf
                    ELSE Abs(cmax[i] - cmin[i])]
        off   == [i \in Axes |->
                    IF IsInf(cmin[i]) \/ IsInf(cmax[i]) THEN NaN
                    ELSE (cmin[i] + cmax[i]) \div 2]
        padded == [i \in Axes |->
                    IF IsInf(delta[i]) THEN Inf
                    ELSE (delta[i] * (100 + BoxPadPct)) \div 100]
    IN  IF boxsize = NoneVec
        THEN [BoxSize |-> [i \in Axes |-> astype_int(padded[i], ub)],
              offset  |-> off,
              warn    |-> {}]
        ELSE [BoxSize |-> boxsize,
              offset  |-> off,
              warn    |-> {i \in Axes : boxsize[i] < delta[i]}]

\* a bug: fsky is demanded even when the curve is already there
_set_nbar_fskyfirst(cur, fsky, redshift) ==
    IF ~fsky THEN [nbar |-> cur, err |-> "ValueError:fsky"]
    ELSE IF cur # NoNbar THEN [nbar |-> cur, err |-> ""]
    ELSE IF redshift = <<>> THEN [nbar |-> cur, err |-> "ValueError:empty"]
    ELSE [nbar |-> [kind |-> "hist", z |-> redshift], err |-> ""]

\* lines 180-216; the curve built from a sample is kept as the sample itself
_set_nbar(cur, fsky, redshift) ==
    IF cur # NoNbar THEN [nbar |-> cur, err |-> ""]
    ELSE IF ~fsky THEN [nbar |-> cur, err |-> "ValueError:fsky"]
    ELSE IF redshift = <<>> THEN [nbar |-> cur, err |-> "ValueError:empty"]
    ELSE [nbar |-> [kind |-> "hist", z |-> redshift], err |-> ""]

-----------------------------------------------------------------------------
(* The histogram of _set_nbar, in exact arithmetic.                        *)
(* With n samples, V = n*sum(x^2) - sum(x)^2 and c = n^(1/3), Scott's bin  *)
(* width is dx = 3.5*sqrt(V)/(n*c), so for integers j and d >= 0           *)
(*     j*dx <= d   iff   49*j^2*V <= 4*d^2*n^2*c^2.                        *)
(* Sample sizes are cubes, for c to be a whole number.                     *)

RECURSIVE Sum(_)
Sum(s) == IF s = <<>> THEN 0 ELSE Head(s) + Sum(Tail(s))

SeqMin(s) == CHOOSE m \in {s[k] : k \in DOMAIN s} : \A k \in DOMAIN s : m <= s[k]
SeqMax(s) == CHOOSE m \in {s[k] : k \in DOMAIN s} : \A k \in DOMAIN s : m >= s[k]

\* n^2 times the variance numpy.std squares
VarN2(s) == Len(s) * Sum([k \in DOMAIN s |-> s[k] * s[k]]) - Sum(s) * Sum(s)

\* n ** (1./3) for a cube n
Cbrt(n) == CHOOSE c \in 1 .. n : c * c * c = n

\* j*dx <= d
WidthsLeq(s, j, d) ==
    49 * j * j * VarN2(s) <= 4 * d * d * Len(s) * Len(s) * Cbrt(Len(s)) * Cbrt(Len(s))

\* j*dx >= d
WidthsGeq(s, j, d) ==
    49 * j * j * VarN2(s) >= 4 * d * d * Len(s) * Len(s) * Cbrt(Len(s)) * Cbrt(Len(s))

\* lines 191-202: max(1, ceil((max-min)/dx)), the least k >= 1 with
\* k*dx >= max-min; with dx = 0 the quotient is 0/0 = nan, and max(1, nan) is 1
ScottNbins(s) ==
    LET r == SeqMax(s) - SeqMin(s)
    IN  IF VarN2(s) = 0 THEN 1
        ELSE CHOOSE k \in 1 .. (Len(s) + 1) :
               /\ WidthsGeq(s, k, r)
               /\ \A j \in 1 .. (k - 1) : ~WidthsGeq(s, j, r)

\* line 206: numpy.searchsorted(zbins, v, "right") for zbins[j] = min + j*dx,
\* j = 0 .. Nbins: the number of edges that are <= v
searchsorted_right(s, nbins, v) ==
    Cardinality({j \in 0 .. nbins : WidthsLeq(s, j, v - SeqMin(s))})

\* line 207: numpy.bincount(dig, minlength=len(zbins)+1)[1:-1]; dig takes
\* values in 0 .. Nbins+1, so the slice keeps the counts of 1 .. Nbins
bincount_interior(dig, nbins) ==
    [b \in 1 .. nbins |-> Cardinality({k \in DOMAIN dig : dig[k] = b})]

\* lines 204-207
histogram(s) ==
    LET nbins == ScottNbins(s)
        dig   == [k \in DOMAIN s |-> searchsorted_right(s, nbins, s[k])]
    IN  [redshift |-> s, Nbins |-> nbins, N |-> bincount_interior(dig, nbins)]

-----------------------------------------------------------------------------
(* Construction: TracerCatalogDataSource.__init__ *)

Configs == [cosmo : BOOLEAN, fsky : BOOLEAN, nbar : {NoNbar, FileNbar},
            BoxSize : {NoneVec, UserBoxSize},
            compute_fkp_weights : BOOLEAN, P0_fkp : {<<>>, <<3>>}]

NoGen == [st |-> "none", cols |-> <<>>, src |-> None, mid |-> 0]

\* the histogram step is not under study
NoHist == [redshift |-> <<>>, Nbins |-> 0, N |-> <<>>]

\* no call of nbar_fromfile is under study
NoLoad == [exists |-> FALSE, rows |-> <<>>, ret |-> "", curve |-> None]

\* no BOSS challenge source is under study
NoBoss == [kind |-> None, scaled |-> FALSE, rsd |-> None, file |-> <<>>,
           BoxSizeIn |-> NoneVec, BoxSize |-> NoneVec, BoxSize0 |-> NoneVec,
           wrapped |-> NoneVec, pos |-> NoneVec, st |-> "none"]

InitEvery(C, H, L, B) ==
    /\ cfg \in C
    /\ zhist \in H
    /\ load \in L
    /\ boss \in B
    /\ pc = [w \in Workers |-> "new"]
    /\ err = [w \in Workers |-> ""]
    /\ BoxSize = [w \in Workers |-> cfg.BoxSize]
    /\ nbar = [w \in Workers |-> cfg.nbar]
    /\ offset = [w \in Workers |-> NoneVec]
    /\ source = [w \in Workers |-> None]
    /\ coords_min = [w \in Workers |-> NoneVec]
    /\ coords_max = [w \in Workers |-> NoneVec]
    /\ redshifts = [w \in Workers |-> <<>>]
    /\ seen = [w \in Workers |-> <<>>]
    /\ warned = [w \in Workers |-> {}]
    /\ gbuf = [k \in 1 .. 3 |-> [w \in Others |-> <<>>]]
    /\ inbox = [w \in Workers |-> <<>>]
    /\ coll = [w \in Workers |-> <<>>]
    /\ prog = <<>>
    /\ ip = [w \in Workers |-> 0]
    /\ gen = [w \in Workers |-> NoGen]
    /\ upk = [w \in Workers |-> 0]
    /\ out = [w \in Workers |-> <<>>]
    /\ upchunk = None
    /\ upRows = [w \in Workers |-> 0]
    /\ outRows = [w \in Workers |-> 0]
    /\ hist = [w \in Workers |-> <<>>]

InitAll(C, H, L) == InitEvery(C, H, L, {NoBoss})

InitOf(C, H) == InitAll(C, H, {NoLoad})

InitWith(C) == InitOf(C, {NoHist})

\* lines 62-74: reset _source and offset, check the cosmology, set up the locals
CtorBegin(w) ==
    /\ pc[w] = "new"
    /\ source' = [source EXCEPT ![w] = None]
    /\ offset' = [offset EXCEPT ![w] = NoneVec]
    /\ IF ~cfg.cosmo
       THEN /\ pc' = [pc EXCEPT ![w] = "failed"]
            /\ err' = [err EXCEPT ![w] = "ValueError:cosmo"]
            /\ UNCHANGED <<coords_min, coords_max>>
       ELSE /\ pc' = [pc EXCEPT ![w] = "stream"]
            /\ coords_min' = [coords_min EXCEPT ![w] = <<Inf, Inf, Inf>>]
            /\ coords_max' = [coords_max EXCEPT ![w] = <<-Inf, -Inf, -Inf>>]
            /\ err' = err
    /\ UNCHANGED <<cfg, boss, load, upchunk, zhist, seen, BoxSize, nbar, redshifts, warned, gbuf, inbox, coll,
                   prog, ip, gen, upk, out, upRows, outRows, hist>>

\* lines 78-87: one iteration of the loop over self.data.read(['Position'])
CtorChunk(w) ==
    /\ pc[w] = "stream"
    /\ upk[w] < MaxChunks
    /\ \E coords \in PosChunks(MaxDataRows - upRows[w]) :
         /\ upk' = [upk EXCEPT ![w] = @ + 1]
         /\ upRows' = [upRows EXCEPT ![w] = @ + Len(coords)]
         /\ seen' = [seen EXCEPT ![w] = @ \o coords]
         /\ IF Len(coords) > 0
            THEN LET cartesian == _to_cartesian(coords, ZeroVec)
                 IN  /\ coords_min' = [coords_min EXCEPT
                                         ![w] = minimum(@, amin(cartesian))]
                     /\ coords_max' = [coords_max EXCEPT
                                         ![w] = maximum(@, amax(cartesian))]
                     /\ redshifts' = [redshifts EXCEPT ![w] = @ \o LastCol(coords)]
            ELSE UNCHANGED <<coords_min, coords_max, redshifts>>
    /\ UNCHANGED <<cfg, boss, load, upchunk, zhist, pc, err, BoxSize, offset, nbar, source, warned, gbuf,
                   inbox, coll, prog, ip, gen, out, outRows, hist>>

\* line 78: the upstream iterator is exhausted
CtorEndStream(w) ==
    /\ pc[w] = "stream"
    /\ pc' = [pc EXCEPT ![w] = "g1"]
    /\ upk' = [upk EXCEPT ![w] = 0]
    /\ upRows' = [upRows EXCEPT ![w] = 0]
    /\ UNCHANGED <<cfg, boss, load, upchunk, zhist, seen, err, BoxSize, offset, nbar, source, coords_min, coords_max,
                   redshifts, warned, gbuf, inbox, coll, prog, ip, gen, out,
                   outRows, hist>>

GatherNo(p) == CASE p = "g1" -> 1 [] p = "g2" -> 2 [] p = "g3" -> 3 [] OTHER -> 0
AfterGather(p) == CASE p = "g1" -> "g2" [] p = "g2" -> "g3" [] OTHER -> "compute"

\* what the gather at position p contributes from worker w
GatherArg(p, w) ==
    CASE p = "g1" -> coords_min[w] [] p = "g2" -> coords_max[w] [] OTHER -> redshifts[w]

\* lines 90-92 on a worker other than the root: contribute; gather returns None
CtorGatherSend(w) ==
    /\ w # Root
    /\ pc[w] \in {"g1", "g2", "g3"}
    /\ gbuf' = [gbuf EXCEPT ![GatherNo(pc[w])][w] = <<GatherArg(pc[w], w)>>]
    /\ coll' = [coll EXCEPT ![w] = Append(@, "gather")]
    /\ pc' = [pc EXCEPT ![w] = IF pc[w] = "g3" THEN "b1" ELSE AfterGather(pc[w])]
    /\ coords_min' = [coords_min EXCEPT ![w] = IF pc[w] = "g1" THEN NoneVec ELSE @]
    /\ coords_max' = [coords_max EXCEPT ![w] = IF pc[w] = "g2" THEN NoneVec ELSE @]
    /\ redshifts' = [redshifts EXCEPT ![w] = IF pc[w] = "g3" THEN <<>> ELSE @]
    /\ UNCHANGED <<cfg, boss, load, upchunk, zhist, seen, err, BoxSize, offset, nbar, source, warned, inbox,
                   prog, ip, gen, upk, out, upRows, outRows, hist>>

\* the list gather returns on the root, in rank order
Gathered(k, own) ==
    [i \in 1 .. NumWorkers |-> IF i - 1 = Root THEN own ELSE gbuf[k][i - 1][1]]

\* lines 90-92 on the root: returns once every worker has contributed
CtorGatherRoot ==
    /\ pc[Root] \in {"g1", "g2", "g3"}
    /\ \A w \in Others : Len(gbuf[GatherNo(pc[Root])][w]) > 0
    /\ LET k == GatherNo(pc[Root])
           got == Gathered(k, GatherArg(pc[Root], Root))
       IN  /\ coords_min' = [coords_min EXCEPT ![Root] = IF k = 1 THEN got ELSE @]
           /\ coords_max' = [coords_max EXCEPT ![Root] = IF k = 2 THEN got ELSE @]
           /\ redshifts' = [redshifts EXCEPT ![Root] = IF k = 3 THEN got ELSE @]
           /\ gbuf' = [gbuf EXCEPT ![k] = [w \in Others |-> <<>>]]
    /\ coll' = [coll EXCEPT ![Root] = Append(@, "gather")]
    /\ pc' = [pc EXCEPT ![Root] = AfterGather(pc[Root])]
    /\ UNCHANGED <<cfg, boss, load, upchunk, zhist, seen, err, BoxSize, offset, nbar, source, warned, inbox,
                   prog, ip, gen, upk, out, upRows, outRows, hist>>

\* lines 95-106: the root reduces, defines the box and sets nbar
CtorCompute ==
    /\ pc[Root] = "compute"
    /\ \E ub \in CastOfInf :
         LET gmin == amin(coords_min[Root])
             gmax == amax(coords_max[Root])
             zs   == Concat(redshifts[Root])
             box  == _define_box(BoxSize[Root], gmin, gmax, ub)
             sn   == _set_nbar(nbar[Root], cfg.fsky, zs)
         IN  /\ coords_min' = [coords_min EXCEPT ![Root] = gmin]
             /\ coords_max' = [coords_max EXCEPT ![Root] = gmax]
             /\ redshifts' = [redshifts EXCEPT ![Root] = zs]
             /\ BoxSize' = [BoxSize EXCEPT ![Root] = box.BoxSize]
             /\ offset' = [offset EXCEPT ![Root] = box.offset]
             /\ warned' = [warned EXCEPT ![Root] = box.warn]
             /\ nbar' = [nbar EXCEPT ![Root] = sn.nbar]
             /\ err' = [err EXCEPT ![Root] = sn.err]
             /\ pc' = [pc EXCEPT ![Root] = IF sn.err = "" THEN "b1" ELSE "failed"]
    /\ UNCHANGED <<cfg, boss, load, upchunk, zhist, seen, source, gbuf, inbox, coll, prog, ip, gen, upk, out, upRows, outRows, hist>>

\* a bug: BoxSize and offset broadcast in the wrong order
BcastArg_swapped(p, w) ==
    CASE p = "b1" -> offset[w] [] p = "b2" -> BoxSize[w] [] OTHER -> nbar[w]

BcastArg(p, w) ==
    CASE p = "b1" -> BoxSize[w] [] p = "b2" -> offset[w] [] OTHER -> nbar[w]
AfterBcast(p) == CASE p = "b1" -> "b2" [] p = "b2" -> "b3" [] OTHER -> "ready"

\* comm.bcast on the root: post the value to every other worker
Post(msg) == [w \in Workers |-> IF w = Root THEN inbox[w] ELSE Append(inbox[w], msg)]

\* what the constructor leaves behind when it returns: its locals are gone
CtorLocals(p, w, cur, gone) == IF p = "b3" THEN gone ELSE cur

\* lines 109-111 on the root
CtorBcastRoot ==
    /\ pc[Root] \in {"b1", "b2", "b3"}
    /\ inbox' = Post(BcastArg(pc[Root], Root))
    /\ coll' = [coll EXCEPT ![Root] = Append(@, "bcast")]
    /\ pc' = [pc EXCEPT ![Root] = AfterBcast(pc[Root])]
    /\ coords_min' = [coords_min EXCEPT ![Root] = CtorLocals(pc[Root], Root, @, NoneVec)]
    /\ coords_max' = [coords_max EXCEPT ![Root] = CtorLocals(pc[Root], Root, @, NoneVec)]
    /\ redshifts' = [redshifts EXCEPT ![Root] = CtorLocals(pc[Root], Root, @, <<>>)]
    /\ seen' = [seen EXCEPT ![Root] = CtorLocals(pc[Root], Root, @, <<>>)]
    /\ UNCHANGED <<cfg, boss, load, upchunk, zhist, err, BoxSize, offset, nbar, source, warned, gbuf,
                   prog, ip, gen, upk, out, upRows, outRows, hist>>

\* lines 109-111 on another worker: blocks until the root's message is there
CtorBcastRecv(w) ==
    /\ w # Root
    /\ pc[w] \in {"b1", "b2", "b3"}
    /\ Len(inbox[w]) > 0
    /\ LET msg == Head(inbox[w])
       IN  /\ BoxSize' = [BoxSize EXCEPT ![w] = IF pc[w] = "b1" THEN msg ELSE @]
           /\ offset' = [offset EXCEPT ![w] = IF pc[w] = "b2" THEN msg ELSE @]
           /\ nbar' = [nbar EXCEPT ![w] = IF pc[w] = "b3" THEN msg ELSE @]
    /\ inbox' = [inbox EXCEPT ![w] = Tail(@)]
    /\ coll' = [coll EXCEPT ![w] = Append(@, "bcast")]
    /\ pc' = [pc EXCEPT ![w] = AfterBcast(pc[w])]
    /\ seen' = [seen EXCEPT ![w] = CtorLocals(pc[w], w, @, <<>>)]
    /\ UNCHANGED <<cfg, boss, load, upchunk, zhist, err, source, coords_min, coords_max, redshifts, warned,
                   gbuf, prog, ip, gen, upk, out, upRows, outRows, hist>>

Constructed(w) == pc[w] = "ready"

NextCtor ==
    \/ \E w \in Workers : CtorBegin(w)
    \/ \E w \in Workers : CtorChunk(w)
    \/ \E w \in Workers : CtorEndStream(w)
    \/ \E w \in Workers : CtorGatherSend(w)
    \/ CtorGatherRoot
    \/ CtorCompute
    \/ CtorBcastRoot
    \/ \E w \in Workers : CtorBcastRecv(w)

\* the steps of __init__ that worker w takes itself
CtorStep(w) ==
    \/ CtorBegin(w)
    \/ CtorChunk(w)
    \/ CtorEndStream(w)
    \/ CtorGatherSend(w)
    \/ (w = Root /\ (CtorGatherRoot \/ CtorCompute \/ CtorBcastRoot))
    \/ CtorBcastRecv(w)

\* construction does not read the FKP settings
CtorConfigs == {c \in Configs : ~c.compute_fkp_weights /\ c.P0_fkp = <<>>}

InitCtor == InitWith(CtorConfigs)

SpecCtor == InitCtor /\ [][NextCtor]_vars

\* configurations the constructor accepts: a cosmology, and fsky or a curve
RunnableConfigs == {c \in CtorConfigs : c.cosmo /\ (c.fsky \/ c.nbar = FileNbar)}

InitRunnable == InitWith(RunnableConfigs)

\* every worker is a running process: a step of __init__ that stays possible
\* is eventually taken
SpecCtorLive ==
    InitRunnable /\ [][NextCtor]_vars /\ \A w \in Workers : WF_vars(CtorStep(w))

-----------------------------------------------------------------------------
(* The histogram step, for samples of redshifts *)

ZValues == {0, 1, 2, 7}
SampleSizes == {1, 8}
Samples == UNION {[1 .. n -> ZValues] : n \in SampleSizes}

\* lines 204-207, applied to the argument of _set_nbar
Histogram ==
    /\ zhist.redshift # <<>>
    /\ zhist.N = <<>>
    /\ zhist' = histogram(zhist.redshift)
    /\ UNCHANGED <<cfg, boss, load, upchunk, pc, err, BoxSize, offset, nbar, source, coords_min,
                   coords_max, redshifts, seen, warned, gbuf, inbox, coll, prog,
                   ip, gen, upk, out, upRows, outRows, hist>>

NextHist == Histogram

\* _set_nbar is entered with fsky set and no curve, on a sample
InitHist ==
    InitOf({c \in CtorConfigs : c.cosmo /\ c.fsky /\ c.nbar = NoNbar
                                   /\ c.BoxSize = NoneVec},
           {[NoHist EXCEPT !.redshift = s] : s \in Samples})

SpecHist == InitHist /\ [][NextHist]_vars

-----------------------------------------------------------------------------
(* nbar_fromfile, the loader of the nbar configuration parameter *)

\* the names bound in the module's namespace when nbar_fromfile runs:
\* the imports of lines 1-6 (the spline class is imported under the name
\* spline), logger, and the definitions of the module
ModuleNames == {"DataSource", "MPI", "numpy", "logging", "spline", "logger",
                "nbar_fromfile", "TracerCatalogDataSource"}

\* the (z, nbar) pairs a line of an nbar file can hold
FilePairs == {<<z, n>> : z \in {0, 1, 2}, n \in {1, 2}}

\* the files behind the argument: no file, or a file of two-column rows
Files == {NoLoad} \cup
         {[NoLoad EXCEPT !.exists = TRUE, !.rows = r] :
            r \in UNION {[1 .. k -> FilePairs] : k \in 1 .. MaxFileRows}}

\* lines 10-20, for the file f behind filename and the namespace names:
\* the existence check, numpy.loadtxt, then the call of line 20, which first
\* looks up the name InterpolatedUnivariateSpline
nbar_fromfile(f, names) ==
    IF ~f.exists THEN [f EXCEPT !.ret = "ValueError"]
    ELSE LET d == f.rows
         IN  IF "InterpolatedUnivariateSpline" \notin names
             THEN [f EXCEPT !.ret = "NameError"]
             ELSE [f EXCEPT !.ret = "ok",
                            !.curve = [kind |-> "file",
                                       x |-> [i \in DOMAIN d |-> d[i][1]],
                                       y |-> [i \in DOMAIN d |-> d[i][2]]]]

\* the framework converts the nbar parameter
NbarFromFile ==
    /\ load.ret = ""
    /\ load' = nbar_fromfile(load, ModuleNames)
    /\ UNCHANGED <<cfg, boss, zhist, pc, err, BoxSize, offset, nbar, source, coords_min,
                   coords_max, redshifts, seen, warned, gbuf, inbox, coll, prog,
                   ip, gen, upk, out, upchunk, upRows, outRows, hist>>

NextLoad == NbarFromFile

\* the parameter is converted before the data source is constructed
InitLoad ==
    InitAll({c \in CtorConfigs : c.cosmo /\ c.fsky /\ c.nbar = NoNbar
                                    /\ c.BoxSize = NoneVec},
            {NoHist}, Files)

SpecLoad == InitLoad /\ [][NextLoad]_vars

-----------------------------------------------------------------------------
(* The BOSS challenge sources (contrib/BOSSChallengeMock.py).              *)
(* Numbers are whole multiples of a small unit.  A float64 holds them      *)
(* exactly.  A float32 (astype('f4')) is a toy binary float with six       *)
(* significant bits: every whole number below 64 in magnitude, every       *)
(* second one below 128, every fourth one from there on; results are       *)
(* rounded to the nearest such number, ties to the even significand.       *)
(* Array operations act on every row alike; one row is followed.           *)

\* n/d rounded to the nearest whole number, ties to even (n >= 0, d > 0)
RoundHalfEven(n, d) ==
    LET q == n \div d
        r == n % d
    IN  IF 2 * r < d THEN q
        ELSE IF 2 * r > d THEN q + 1
        ELSE IF q % 2 = 0 THEN q ELSE q + 1

\* the spacing of float32 numbers at the magnitude of n/d
F4Step(n, d) == IF n < 64 * d THEN 1 ELSE IF n < 128 * d THEN 2 ELSE 4

\* the float32 nearest to the rational n/d (d > 0)
F4Q(n, d) ==
    IF n >= 0 THEN RoundHalfEven(n, d * F4Step(n, d)) * F4Step(n, d)
    ELSE -(RoundHalfEven(-n, d * F4Step(-n, d)) * F4Step(-n, d))

\* astype('f4') of a float64
F4(x) == F4Q(x, 1)

\* a float32 array element updated in place: a += b, a %= m, a *= pct/100
iadd_f4(a, b) == F4(a + b)
imod_f4(a, m) == F4(a % m)
imul_f4(a, pct) == F4Q(a * pct, 100)

\* a float64 array element updated in place: a *= pct/100
imul_f8(a, pct) == (a * pct) \div 100

\* qpar and qperp of BOSSChallengeNSeries (and of BoxC), in hundredths
QparPct == 98
QperpPct == 99

\* 'xyz'.index(rsd), counted from 1
AxisOf(rsd) == CASE rsd = "x" -> 1 [] rsd = "y" -> 2 [] OTHER -> 3

\* BOSSChallengeMockDataSource.__init__, lines 38-43
Mock_init(b) ==
    [b EXCEPT !.st = "init",
              !.BoxSize = IF b.scaled
                          THEN <<imul_f8(b.BoxSizeIn[1], QperpPct),
                                 imul_f8(b.BoxSizeIn[2], QperpPct),
                                 imul_f8(b.BoxSizeIn[3], QparPct)>>
                          ELSE b.BoxSizeIn]

\* BOSSChallengeMockDataSource.readall, lines 65-91, for the Position column
Mock_readall(b) ==
    LET pos == [i \in Axes |-> F4(b.file.pos[i])]
    IN  [b EXCEPT !.st = "read",
                  !.wrapped = pos,
                  !.pos = IF b.scaled
                          THEN <<imul_f4(pos[1], QperpPct), imul_f4(pos[2], QperpPct),
                                 imul_f4(pos[3], QparPct)>>
                          ELSE pos]

\* BOSSChallengeNSeriesDataSource.__init__, lines 137-151
NSeries_init(b) ==
    [b EXCEPT !.st = "init",
              !.BoxSize0 = b.BoxSizeIn,
              !.BoxSize = IF ~b.scaled THEN b.BoxSizeIn
                          ELSE IF b.rsd = None
                          THEN [i \in Axes |-> imul_f8(b.BoxSizeIn[i], QperpPct)]
                          ELSE [i \in Axes |->
                                  IF i = AxisOf(b.rsd)
                                  THEN imul_f8(b.BoxSizeIn[i], QparPct)
                                  ELSE imul_f8(b.BoxSizeIn[i], QperpPct)]]

\* BOSSChallengeNSeriesDataSource.readall, lines 177-213, for the Position column
NSeries_readall(b) ==
    LET pos  == [i \in Axes |-> F4(b.file.pos[i])]
        vel  == [i \in Axes |-> F4(b.file.vel[i])]
        wrap == IF b.rsd = None THEN pos
                ELSE [i \in Axes |->
                        IF i = AxisOf(b.rsd)
                        THEN imod_f4(iadd_f4(pos[i], vel[i]), b.BoxSize0[i])
                        ELSE pos[i]]
    IN  [b EXCEPT !.st = "read",
                  !.wrapped = wrap,
                  !.pos = IF ~b.scaled THEN wrap
                          ELSE IF b.rsd = None
                          THEN [i \in Axes |-> imul_f4(wrap[i], QperpPct)]
                          ELSE [i \in Axes |->
                                  IF i = AxisOf(b.rsd)
                                  THEN imul_f4(wrap[i], QparPct)
                                  ELSE imul_f4(wrap[i], QperpPct)]]

\* the plugin is constructed
BossInit ==
    /\ boss.st = "new"
    /\ boss' = IF boss.kind = "Mock" THEN Mock_init(boss) ELSE NSeries_init(boss)
    /\ UNCHANGED <<cfg, zhist, load, pc, err, BoxSize, offset, nbar, source,
                   coords_min, coords_max, redshifts, seen, warned, gbuf, inbox,
                   coll, prog, ip, gen, upk, out, upchunk, upRows, outRows, hist>>

\* its file is read
BossReadall ==
    /\ boss.st = "init"
    /\ boss' = IF boss.kind = "Mock" THEN Mock_readall(boss) ELSE NSeries_readall(boss)
    /\ UNCHANGED <<cfg, zhist, load, pc, err, BoxSize, offset, nbar, source,
                   coords_min, coords_max, redshifts, seen, warned, gbuf, inbox,
                   coll, prog, ip, gen, upk, out, upchunk, upRows, outRows, hist>>

NextBoss == BossInit \/ BossReadall

\* the box of the mocks, and the coordinates and velocities of a row of the
\* file, inside the box
BossBox == <<100, 100, 100>>
BossCoords == {0, 1, 98}
BossVelocities == {-1, 0, 3}

BossSources ==
    {[NoBoss EXCEPT !.kind = k, !.scaled = sc, !.rsd = r, !.BoxSizeIn = BossBox,
                    !.file = [pos |-> p, vel |-> v], !.st = "new"] :
       k \in {"Mock", "NSeries"}, sc \in BOOLEAN, r \in {None, "x", "y", "z"},
       p \in [Axes -> BossCoords], v \in [Axes -> BossVelocities]}

InitBoss ==
    InitEvery({c \in CtorConfigs : c.cosmo /\ c.fsky /\ c.nbar = NoNbar
                                      /\ c.BoxSize = NoneVec},
              {NoHist}, {NoLoad}, BossSources)

SpecBoss == InitBoss /\ [][NextBoss]_vars

-----------------------------------------------------------------------------
(* The caller's program: the same sequence of calls on every worker *)

ColumnLists == {<<"Weight", "Position", "Weight">>, <<"Nbar">>,
                <<"Nbar", "Weight">>, <<"Position", "Velocity">>}
Whiches == {"data", "randoms", "other"}

SetSourceOp(which) == [op |-> "set_source", which |-> which, cols |-> <<>>]
ReadOp(cols) == [op |-> "read", which |-> "", cols |-> cols]

\* worker w makes its next call: the first worker to get there chooses it
Issue(w, op) ==
    /\ pc[w] = "ready"
    /\ gen[w].st = "none"
    /\ IF ip[w] < Len(prog)
       THEN prog[ip[w] + 1] = op /\ prog' = prog
       ELSE Len(prog) < MaxOps /\ prog' = Append(prog, op)

NewCall(op) == [op |-> op, ret |-> "", nb |-> 0, metas |-> <<>>]

-----------------------------------------------------------------------------
(* set_source *)

\* a bug: a bad argument resets the selection
set_source_reset(cur, which) ==
    IF which = "data" THEN [source |-> "data", ret |-> "ok"]
    ELSE IF which = "randoms" THEN [source |-> "randoms", ret |-> "ok"]
    ELSE [source |-> None, ret |-> "NotImplementedError"]

set_source(cur, which) ==
    IF which = "data" THEN [source |-> "data", ret |-> "ok"]
    ELSE IF which = "randoms" THEN [source |-> "randoms", ret |-> "ok"]
    ELSE [source |-> cur, ret |-> "NotImplementedError"]

\* a bug: selecting a source drops the offset, as __init__ does at line 64
SetSource_resets(w) ==
    \E which \in Whiches :
      /\ Issue(w, SetSourceOp(which))
      /\ LET r == set_source(source[w], which)
         IN  /\ source' = [source EXCEPT ![w] = r.source]
             /\ hist' = [hist EXCEPT ![w] =
                           Append(@, [NewCall(SetSourceOp(which)) EXCEPT !.ret = r.ret])]
      /\ ip' = [ip EXCEPT ![w] = @ + 1]
      /\ offset' = [offset EXCEPT ![w] = NoneVec]
      /\ UNCHANGED <<cfg, boss, load, upchunk, zhist, seen, pc, err, BoxSize, nbar, coords_min, coords_max,
                     redshifts, warned, gbuf, inbox, coll, gen, upk, out,
                     upRows, outRows>>

\* lines 218-231
SetSource(w) ==
    \E which \in Whiches :
      /\ Issue(w, SetSourceOp(which))
      /\ LET r == set_source(source[w], which)
         IN  /\ source' = [source EXCEPT ![w] = r.source]
             /\ hist' = [hist EXCEPT ![w] =
                           Append(@, [NewCall(SetSourceOp(which)) EXCEPT !.ret = r.ret])]
      /\ ip' = [ip EXCEPT ![w] = @ + 1]
      /\ UNCHANGED <<cfg, boss, load, upchunk, zhist, seen, pc, err, BoxSize, offset, nbar, coords_min, coords_max,
                     redshifts, warned, gbuf, inbox, coll, gen, upk, out,
                     upRows, outRows>>

-----------------------------------------------------------------------------
(* read *)

valid == {"Position", "Weight", "Nbar"}

\* a bug: the source check is missing
read_check_nosource(src, columns) ==
    IF \E i \in DOMAIN columns : columns[i] \notin valid THEN "ValueError:columns"
    ELSE ""

\* a bug: the column check is missing
read_check_nocolumns(src, columns) ==
    IF src = None THEN "ValueError:source" ELSE ""

\* lines 237-245: the checks made when the generator is first resumed
read_check(src, columns) ==
    IF src = None THEN "ValueError:source"
    ELSE IF \E i \in DOMAIN columns : columns[i] \notin valid THEN "ValueError:columns"
    ELSE ""

\* the spline self.nbar evaluated at redshift z
NbarAt(curve, z) ==
    IF curve.kind = "file" THEN z + 1
    ELSE Cardinality({i \in DOMAIN curve.z : curve.z[i] = z})

Negated(v) == [i \in DOMAIN v |-> IF v[i] = NaN THEN NaN ELSE -v[i]]

\* a number of the Weight column, as a fraction <<numerator, denominator>>
Frac(n, d) == <<n, d>>

Array(rows, rowshape, dtype) == [rows |-> rows, rowshape |-> rowshape, dtype |-> dtype]

\* a bug: the spline is evaluated at the last row instead of the last column
read_root_lastrow(chunk, columns, src, off, curve, fkp, P0) ==
    LET coords == chunk.coords
        pos    == _to_cartesian(coords, Negated(off))
        last   == IF coords = <<>> THEN <<>> ELSE coords[Len(coords)]
        nb     == [i \in DOMAIN last |-> NbarAt(curve, last[i])]
        weight == IF fkp
                  THEN [i \in DOMAIN nb |-> Frac(1, 1 + nb[i] * P0[1])]
                  ELSE [i \in DOMAIN chunk.weight |-> Frac(chunk.weight[i], 1)]
        wtype  == IF fkp THEN "f8" ELSE UpWeightDtype(src)
        P      == [Position |-> Array(pos, <<3>>, "f8"),
                   Weight   |-> Array(weight, <<>>, wtype),
                   Nbar     |-> Array(nb, <<>>, "f8")]
    IN  IF fkp /\ P0 = <<>>
        THEN [ret |-> "ValueError:P0_fkp", data |-> <<>>]
        ELSE IF \E i \in DOMAIN columns : columns[i] \notin DOMAIN P
        THEN [ret |-> "KeyError", data |-> <<>>]
        ELSE [ret |-> "", data |-> [i \in DOMAIN columns |-> P[columns[i]]]]

\* a bug: the FKP setting is ignored and the upstream weight passed on
read_root_keepweight(chunk, columns, src, off, curve, fkp, P0) ==
    LET coords == chunk.coords
        pos    == _to_cartesian(coords, Negated(off))
        nb     == [i \in DOMAIN coords |-> NbarAt(curve, coords[i][3])]
        weight == [i \in DOMAIN chunk.weight |-> Frac(chunk.weight[i], 1)]
        wtype  == UpWeightDtype(src)
        P      == [Position |-> Array(pos, <<3>>, "f8"),
                   Weight   |-> Array(weight, <<>>, wtype),
                   Nbar     |-> Array(nb, <<>>, "f8")]
    IN  IF fkp /\ P0 = <<>>
        THEN [ret |-> "ValueError:P0_fkp", data |-> <<>>]
        ELSE IF \E i \in DOMAIN columns : columns[i] \notin DOMAIN P
        THEN [ret |-> "KeyError", data |-> <<>>]
        ELSE [ret |-> "", data |-> [i \in DOMAIN columns |-> P[columns[i]]]]

\* lines 250-269 on the root, for one upstream chunk [coords, weight]
read_root(chunk, columns, src, off, curve, fkp, P0) ==
    LET coords == chunk.coords
        pos    == _to_cartesian(coords, Negated(off))
        nb     == [i \in DOMAIN coords |-> NbarAt(curve, coords[i][3])]
        weight == IF fkp
                  THEN [i \in DOMAIN nb |-> Frac(1, 1 + nb[i] * P0[1])]
                  ELSE [i \in DOMAIN chunk.weight |-> Frac(chunk.weight[i], 1)]
        wtype  == IF fkp THEN "f8" ELSE UpWeightDtype(src)
        P      == [Position |-> Array(pos, <<3>>, "f8"),
                   Weight   |-> Array(weight, <<>>, wtype),
                   Nbar     |-> Array(nb, <<>>, "f8")]
    IN  IF fkp /\ P0 = <<>>
        THEN [ret |-> "ValueError:P0_fkp", data |-> <<>>]
        ELSE IF \E i \in DOMAIN columns : columns[i] \notin DOMAIN P
        THEN [ret |-> "KeyError", data |-> <<>>]
        ELSE [ret |-> "", data |-> [i \in DOMAIN columns |-> P[columns[i]]]]

\* line 269: (d.shape, d.dtype) of every array
ShapeAndDtype(data) ==
    [i \in DOMAIN data |-> [shape |-> <<Len(data[i].rows)>> \o data[i].rowshape,
                            dtype |-> data[i].dtype]]

\* lines 278-281: the placeholders a worker other than the root builds
read_other(shape_and_dtype) ==
    [i \in DOMAIN shape_and_dtype |->
        Array(<<>>, Tail(shape_and_dtype[i].shape), shape_and_dtype[i].dtype)]

\* per-row shape and element type of every column of a chunk
Meta(data) ==
    [i \in DOMAIN data |-> [rowshape |-> data[i].rowshape, dtype |-> data[i].dtype]]

\* rows of a yielded chunk: the length of its first column
ChunkRows(data) == IF data = <<>> THEN 0 ELSE Len(data[1].rows)

Cur(w) == Len(hist[w])

\* lines 233-248: read is called and the generator resumed for the first time
ReadBegin(w) ==
    \E cols \in ColumnLists :
      /\ Issue(w, ReadOp(cols))
      /\ LET e == read_check(source[w], cols)
         IN  IF e # ""
             THEN /\ hist' = [hist EXCEPT ![w] =
                                Append(@, [NewCall(ReadOp(cols)) EXCEPT !.ret = e])]
                  /\ ip' = [ip EXCEPT ![w] = @ + 1]
                  /\ gen' = gen
             ELSE /\ hist' = [hist EXCEPT ![w] = Append(@, NewCall(ReadOp(cols)))]
                  /\ gen' = [gen EXCEPT ![w] =
                               [st |-> "loop", cols |-> cols, src |-> source[w], mid |-> 0]]
                  /\ ip' = ip
      /\ upk' = [upk EXCEPT ![w] = 0]
      /\ upRows' = [upRows EXCEPT ![w] = 0]
      /\ outRows' = [outRows EXCEPT ![w] = 0]
      /\ UNCHANGED <<cfg, boss, load, upchunk, zhist, seen, pc, err, BoxSize, offset, nbar, source, coords_min,
                     coords_max, redshifts, warned, gbuf, inbox, coll, out>>

\* line 248: the upstream iterator is exhausted, the generator returns
ReadEnd(w) ==
    /\ gen[w].st = "loop"
    /\ gen' = [gen EXCEPT ![w] = NoGen]
    /\ hist' = [hist EXCEPT ![w][Cur(w)].ret = "ok"]
    /\ ip' = [ip EXCEPT ![w] = @ + 1]
    /\ upk' = [upk EXCEPT ![w] = 0]
    /\ out' = [out EXCEPT ![w] = <<>>]
    /\ upchunk' = IF w = Root THEN None ELSE upchunk
    /\ UNCHANGED <<cfg, boss, load, zhist, seen, pc, err, BoxSize, offset, nbar, source, coords_min,
                   coords_max, redshifts, warned, gbuf, inbox, coll, prog,
                   upRows, outRows>>

\* a bug: self._source is looked up again for every chunk
ReadChunkRoot_rebind ==
    /\ gen[Root].st = "loop"
    /\ upk[Root] < MaxChunks
    /\ \E chunk \in PWChunks(MaxRows - upRows[Root]) :
         LET w == Root
             r == read_root(chunk, gen[w].cols, source[w], offset[w], nbar[w],
                            cfg.compute_fkp_weights, cfg.P0_fkp)
         IN  IF r.ret # ""
             THEN /\ gen' = [gen EXCEPT ![w] = NoGen]
                  /\ hist' = [hist EXCEPT ![w][Cur(w)].ret = r.ret]
                  /\ ip' = [ip EXCEPT ![w] = @ + 1]
                  /\ upk' = [upk EXCEPT ![w] = 0]
                  /\ out' = [out EXCEPT ![w] = <<>>]
                  /\ upchunk' = None
                  /\ upRows' = [upRows EXCEPT ![w] = @ + Len(chunk.coords)]
                  /\ UNCHANGED <<inbox, coll, outRows>>
             ELSE /\ inbox' = Post(ShapeAndDtype(r.data))
                  /\ coll' = [coll EXCEPT ![w] = Append(@, "bcast")]
                  /\ out' = [out EXCEPT ![w] = r.data]
                  /\ upchunk' = chunk
                  /\ hist' = [hist EXCEPT ![w][Cur(w)].nb = @ + 1,
                                          ![w][Cur(w)].metas = Append(@, Meta(r.data))]
                  /\ upRows' = [upRows EXCEPT ![w] = @ + Len(chunk.coords)]
                  /\ outRows' = [outRows EXCEPT ![w] = @ + ChunkRows(r.data)]
                  /\ upk' = [upk EXCEPT ![w] = @ + 1]
                  /\ UNCHANGED <<gen, ip>>
    /\ UNCHANGED <<cfg, boss, load, zhist, seen, pc, err, BoxSize, offset, nbar, source, coords_min,
                   coords_max, redshifts, warned, gbuf, prog>>

\* lines 248-282 on the root: next upstream chunk, compute, bcast the metadata, yield
ReadChunkRoot ==
    /\ gen[Root].st = "loop"
    /\ upk[Root] < MaxChunks
    /\ \E chunk \in PWChunks(MaxRows - upRows[Root]) :
         LET w == Root
             r == read_root(chunk, gen[w].cols, gen[w].src, offset[w], nbar[w],
                            cfg.compute_fkp_weights, cfg.P0_fkp)
         IN  IF r.ret # ""
             THEN /\ gen' = [gen EXCEPT ![w] = NoGen]
                  /\ hist' = [hist EXCEPT ![w][Cur(w)].ret = r.ret]
                  /\ ip' = [ip EXCEPT ![w] = @ + 1]
                  /\ upk' = [upk EXCEPT ![w] = 0]
                  /\ out' = [out EXCEPT ![w] = <<>>]
                  /\ upchunk' = None
                  /\ upRows' = [upRows EXCEPT ![w] = @ + Len(chunk.coords)]
                  /\ UNCHANGED <<inbox, coll, outRows>>
             ELSE /\ inbox' = Post(ShapeAndDtype(r.data))
                  /\ coll' = [coll EXCEPT ![w] = Append(@, "bcast")]
                  /\ out' = [out EXCEPT ![w] = r.data]
                  /\ upchunk' = chunk
                  /\ hist' = [hist EXCEPT ![w][Cur(w)].nb = @ + 1,
                                          ![w][Cur(w)].metas = Append(@, Meta(r.data))]
                  /\ upRows' = [upRows EXCEPT ![w] = @ + Len(chunk.coords)]
                  /\ outRows' = [outRows EXCEPT ![w] = @ + ChunkRows(r.data)]
                  /\ upk' = [upk EXCEPT ![w] = @ + 1]
                  /\ UNCHANGED <<gen, ip>>
    /\ UNCHANGED <<cfg, boss, load, zhist, seen, pc, err, BoxSize, offset, nbar, source, coords_min,
                   coords_max, redshifts, warned, gbuf, prog>>

\* lines 248-275 on another worker: next upstream chunk, then enter the bcast
ReadChunkOther(w) ==
    /\ w # Root
    /\ gen[w].st = "loop"
    /\ upk[w] < MaxChunks
    /\ \E chunk \in PWChunks(MaxRows - upRows[w]) :
         upRows' = [upRows EXCEPT ![w] = @ + Len(chunk.coords)]
    /\ hist' = [hist EXCEPT ![w][Cur(w)].nb = @ + 1]
    /\ gen' = [gen EXCEPT ![w].st = "bcast"]
    /\ coll' = [coll EXCEPT ![w] = Append(@, "bcast")]
    /\ upk' = [upk EXCEPT ![w] = @ + 1]
    /\ UNCHANGED <<cfg, boss, load, upchunk, zhist, seen, pc, err, BoxSize, offset, nbar, source, coords_min,
                   coords_max, redshifts, warned, gbuf, inbox, prog, ip, out,
                   outRows>>

\* lines 275-282 on another worker: the bcast returns, build placeholders, yield
ReadBcastRecv(w) ==
    /\ w # Root
    /\ gen[w].st = "bcast"
    /\ Len(inbox[w]) > 0
    /\ LET data == read_other(Head(inbox[w]))
       IN  /\ out' = [out EXCEPT ![w] = data]
           /\ hist' = [hist EXCEPT ![w][Cur(w)].metas = Append(@, Meta(data))]
           /\ outRows' = [outRows EXCEPT ![w] = @ + ChunkRows(data)]
    /\ inbox' = [inbox EXCEPT ![w] = Tail(@)]
    /\ gen' = [gen EXCEPT ![w].st = "loop"]
    /\ UNCHANGED <<cfg, boss, load, upchunk, zhist, seen, pc, err, BoxSize, offset, nbar, source, coords_min,
                   coords_max, redshifts, warned, gbuf, coll, prog, ip, upk,
                   upRows>>

Next ==
    \/ NextCtor
    \/ \E w \in Workers : SetSource(w)
    \/ \E w \in Workers : ReadBegin(w)
    \/ \E w \in Workers : ReadEnd(w)
    \/ ReadChunkRoot
    \/ \E w \in Workers : ReadChunkOther(w)
    \/ \E w \in Workers : ReadBcastRecv(w)

\* configurations with which construction succeeds
ValidConfigs == {c \in Configs : c.cosmo /\ c.fsky /\ c.nbar = FileNbar
                                   /\ c.BoxSize = UserBoxSize}

Init == InitWith(ValidConfigs)

Spec == Init /\ [][Next]_vars

\* lines 218-231, called by the consumer of a pass between two chunks, while
\* the generator is suspended at its yield (line 282); once per pass, and
\* only a call that changes the selection (any other leaves the state as it is)
SetSourceMid(w) ==
    /\ gen[w].st = "loop"
    /\ hist[w][Cur(w)].metas # <<>>
    /\ gen[w].mid = 0
    /\ \E which \in Whiches :
         /\ set_source(source[w], which).source # source[w]
         /\ source' = [source EXCEPT ![w] = set_source(source[w], which).source]
    /\ gen' = [gen EXCEPT ![w].mid = Len(hist[w][Cur(w)].metas)]
    /\ UNCHANGED <<cfg, boss, load, upchunk, zhist, seen, pc, err, BoxSize, offset, nbar,
                   coords_min, coords_max, redshifts, warned, gbuf, inbox, coll,
                   prog, ip, upk, out, upRows, outRows, hist>>

NextMid == Next \/ \E w \in Workers : SetSourceMid(w)

\* without FKP weighting the Weight column keeps the element type of the
\* source it was read from
InitMid == InitWith({c \in ValidConfigs : ~c.compute_fkp_weights /\ c.P0_fkp = <<>>})

SpecMid == InitMid /\ [][NextMid]_vars

-----------------------------------------------------------------------------
(* Vocabulary of the properties *)

IsRead(w, i) == hist[w][i].op.op = "read"
IsSetSource(w, i) == hist[w][i].op.op = "set_source"

\* call number i has returned (or raised) on worker w
Finished(w, i) == i <= ip[w]

\* worker w makes a call in this step; it is call number Len(hist'[w])
Calls(w) == Len(hist'[w]) = Len(hist[w]) + 1
Called(w) == hist'[w][Len(hist'[w])]

\* worker w waits in the per-chunk bcast of a pass the root has already left,
\* so the root never posts the message this bcast is matched with
Stuck(w) ==
    /\ w # Root
    /\ gen[w].st = "bcast"
    /\ inbox[w] = <<>>
    /\ Finished(Root, Cur(w))

\* every worker has finished call number i, a read that passed its checks
PassOver(i) ==
    \A w \in Workers : Finished(w, i) /\ IsRead(w, i)
                       /\ hist[w][i].ret \notin {"ValueError:source", "ValueError:columns"}

RECURSIVE SumSeq(_)
SumSeq(s) == IF s = <<>> THEN 0 ELSE Head(s) + SumSeq(Tail(s))

\* a per-worker count, summed over the workers
AllRows(f) == SumSeq([i \in 1 .. NumWorkers |-> f[i - 1]])

-----------------------------------------------------------------------------
(* C1: in a read pass every worker enters the per-chunk bcast the same    *)
(* number of times, whatever the chunk counts of the workers' upstream     *)
(* streams, and no worker waits in a bcast the root never enters.          *)
C1_SameCollectives ==
    /\ \A i \in 1 .. MaxOps : PassOver(i) =>
          \A w \in Workers : hist[w][i].nb = hist[Root][i].nb
    /\ \A w \in Workers : ~Stuck(w)

BadConfig == ~cfg.cosmo \/ (~cfg.fsky /\ cfg.nbar = NoNbar)

(* C2: with the cosmology absent, or fsky absent and no nbar supplied,     *)
(* construction fails on every worker with a configuration error before    *)
(* any chunk is streamed and before any gather or bcast is entered.        *)
C2_FailFast ==
    BadConfig => \A w \in Workers :
        /\ pc[w] \in {"new", "failed"}
        /\ upk[w] = 0
        /\ coll[w] = <<>>
        /\ pc[w] = "failed" => err[w] \in {"ValueError:cosmo", "ValueError:fsky"}

(* C3: a worker whose construction has completed holds the BoxSize, offset *)
(* and nbar the root holds after its computation.                          *)
C3_SameGeometry ==
    \A w \in Workers : Constructed(w) =>
        /\ Constructed(Root)
        /\ BoxSize[w] = BoxSize[Root]
        /\ offset[w] = offset[Root]
        /\ nbar[w] = nbar[Root]

\* all workers constructed with an auto-computed box from a single data row,
\* so that at least one worker's shard had no rows
C3_Witness ==
    /\ \A w \in Workers : Constructed(w)
    /\ cfg.BoxSize = NoneVec
    /\ BoxSize[Root] # NoneVec
    /\ nbar[Root].kind = "hist" /\ Len(nbar[Root].z) = 1

(* C4: the rows yielded by one read pass, summed over chunks and workers,  *)
(* are as many as the rows of the active source, summed over the workers'  *)
(* upstream streams.                                                       *)
C4_RowCount ==
    \A i \in 1 .. MaxOps :
        (PassOver(i) /\ \A w \in Workers : ip[w] = i /\ hist[w][i].ret = "ok")
            => AllRows(outRows) = AllRows(upRows)

FkpWithoutP0 == cfg.compute_fkp_weights /\ cfg.P0_fkp = <<>>

(* C5: with FKP weighting enabled and P0_fkp absent, a read raises the     *)
(* configuration error on every worker: none yields a chunk, none returns  *)
(* normally, and none waits in the per-chunk bcast.                        *)
C5_FkpError ==
    FkpWithoutP0 => \A w \in Workers :
        /\ ~Stuck(w)
        /\ \A i \in 1 .. Len(hist[w]) : IsRead(w, i) =>
              /\ hist[w][i].metas = <<>>
              /\ hist[w][i].ret # "ok"

\* no set_source call of worker w has succeeded so far
NoSourceYet(w) ==
    \A i \in 1 .. Len(hist[w]) : ~(IsSetSource(w, i) /\ hist[w][i].ret = "ok")

C6_Step ==
    \A w \in Workers :
        /\ (Calls(w) /\ Called(w).op.op = "read" /\ NoSourceYet(w)) =>
              /\ Called(w).ret = "ValueError:source"
              /\ gen'[w] = NoGen /\ ip'[w] = ip[w] + 1
              /\ upRows'[w] = 0 /\ coll'[w] = coll[w] /\ inbox' = inbox
        /\ ~NoSourceYet(w) => source[w] # None /\ source'[w] # None

(* C6: a read made while no set_source call has succeeded fails with the   *)
(* precondition error without pulling an upstream chunk or entering a      *)
(* bcast; and once set, the active source is never unset again.            *)
C6_ReadNeedsSource == [][C6_Step]_vars

\* a read has failed on a worker that never selected a source
C6_Witness ==
    \E w \in Workers : \E i \in 1 .. Len(hist[w]) :
        /\ IsRead(w, i) /\ hist[w][i].ret = "ValueError:source"
        /\ NoSourceYet(w)

C7_Step ==
    \A w \in Workers :
        (Calls(w) /\ Called(w).op.op = "set_source") =>
            LET which == Called(w).op.which
            IN  IF which \in {"data", "randoms"}
                THEN source'[w] = which /\ Called(w).ret = "ok"
                ELSE source'[w] = source[w] /\ Called(w).ret = "NotImplementedError"

(* C7: set_source('data') and set_source('randoms') select that source     *)
(* from any state; any other argument raises and leaves the selection as   *)
(* it was.                                                                 *)
C7_SetSource == [][C7_Step]_vars

\* a worker went unset -> data -> randoms and then had a bad argument rejected
C7_Witness ==
    \E w \in Workers :
        /\ Len(hist[w]) = 3
        /\ hist[w][1].op = SetSourceOp("data")
        /\ hist[w][2].op = SetSourceOp("randoms")
        /\ hist[w][3].op = SetSourceOp("other")
        /\ hist[w][3].ret = "NotImplementedError"
        /\ source[w] = "randoms"

HasInvalid(cols) == \E i \in DOMAIN cols : cols[i] \notin {"Position", "Weight", "Nbar"}

C8_Step ==
    \A w \in Workers :
        (Calls(w) /\ Called(w).op.op = "read" /\ source[w] # None
                  /\ HasInvalid(Called(w).op.cols)) =>
            /\ Called(w).ret = "ValueError:columns"
            /\ Called(w).metas = <<>>
            /\ gen'[w] = NoGen /\ ip'[w] = ip[w] + 1
            /\ upRows'[w] = 0 /\ coll'[w] = coll[w] /\ inbox' = inbox
            /\ out'[w] = out[w]

(* C8: with a source selected, a read that asks for a column outside       *)
(* {Position, Weight, Nbar} raises the invalid-column error before any     *)
(* upstream chunk is pulled, any bcast is entered or any chunk is yielded. *)
C8_InvalidColumn == [][C8_Step]_vars

\* a read asking for Velocity has been rejected on a worker with a source
C8_Witness ==
    \E w \in Workers : \E i \in 1 .. Len(hist[w]) :
        /\ IsRead(w, i) /\ hist[w][i].ret = "ValueError:columns"
        /\ hist[w][i].op.cols = <<"Position", "Velocity">>
        /\ source[w] # None

(* C9: a chunk yielded on a worker other than the root has no rows, and    *)
(* its columns have the per-row shape and element type of the chunk the    *)
(* root yields at the same position of the same pass.                      *)
C9_Placeholders ==
    \A w \in Others :
        /\ \A c \in DOMAIN out[w] : out[w][c].rows = <<>>
        /\ \A i \in 1 .. Len(hist[w]) : \A k \in 1 .. Len(hist[w][i].metas) :
              (Finished(Root, i) \/ (Len(hist[Root]) >= i /\ Len(hist[Root][i].metas) >= k))
                 => /\ Len(hist[Root][i].metas) >= k
                    /\ hist[w][i].metas[k] = hist[Root][i].metas[k]

(* C10: all columns of a yielded chunk have the same number of rows.       *)
C10_EqualLengths ==
    \A w \in Workers : \A c, d \in DOMAIN out[w] :
        Len(out[w][c].rows) = Len(out[w][d].rows)

\* the root holds a one-row chunk and another worker a placeholder, both of
\* three columns
C10_Witness ==
    /\ Len(out[Root]) = 3 /\ Len(out[Root][1].rows) = 1
    /\ \E w \in Others : Len(out[w]) = 3

\* the root has reduced the gathered corners and not yet left __init__
Reduced == pc[Root] \in {"b1", "b2", "b3"}

\* the observed extent |max-min| of the data on axis i, as the root sees it
Extent(i) ==
    IF IsInf(coords_min[Root][i]) \/ IsInf(coords_max[Root][i]) THEN Inf
    ELSE Abs(coords_max[Root][i] - coords_min[Root][i])

(* C11: without a supplied BoxSize and with finite corners, _define_box    *)
(* sets offset to (min+max)/2 exactly and a BoxSize that is at least       *)
(* |max-min| on every axis.                                                *)
C11_BoxCoversData ==
    (cfg.BoxSize = NoneVec /\ Reduced /\ \A i \in Axes : ~IsInf(Extent(i))) =>
        \A i \in Axes :
            /\ 2 * offset[Root][i] = coords_min[Root][i] + coords_max[Root][i]
            /\ BoxSize[Root][i] >= Extent(i)

(* C12: with a precomputed nbar supplied, construction builds no histogram *)
(* and keeps the curve: every worker's nbar is the supplied curve at all   *)
(* times, and neither a missing fsky nor an empty sample makes             *)
(* construction fail.                                                      *)
C12_SuppliedNbarKept ==
    cfg.nbar = FileNbar => \A w \in Workers :
        /\ nbar[w] = FileNbar
        /\ err[w] \notin {"ValueError:fsky", "ValueError:empty"}
        /\ cfg.cosmo => pc[w] # "failed"

\* construction completed everywhere with a supplied curve, without fsky
C12_Witness ==
    /\ cfg.nbar = FileNbar /\ ~cfg.fsky
    /\ \A w \in Workers : Constructed(w) /\ nbar[w] = FileNbar

(* C13: a supplied BoxSize is kept unchanged on every worker, construction *)
(* does not fail because of it, and the root warns for exactly the axes on *)
(* which the supplied size is smaller than the observed extent.            *)
C13_UserBoxSize ==
    cfg.BoxSize = UserBoxSize =>
        /\ \A w \in Workers : BoxSize[w] = UserBoxSize
        /\ (cfg.cosmo /\ cfg.nbar = FileNbar) => \A w \in Workers : pc[w] # "failed"
        /\ Reduced => warned[Root] = {i \in Axes : UserBoxSize[i] < Extent(i)}

\* construction completed everywhere with the supplied BoxSize, after a
\* warning for the second axis only
C13_Witness ==
    /\ cfg.BoxSize = UserBoxSize
    /\ \A w \in Workers : Constructed(w) /\ BoxSize[w] = UserBoxSize
    /\ warned[Root] = {2}

\* the rows of the data, over all workers, in rank order
DataRows == Concat([i \in 1 .. NumWorkers |-> seen[i - 1]])

\* the Cartesian projections of the data rows, as a set
Projections == {_to_cartesian_row(DataRows[k], ZeroVec) : k \in DOMAIN DataRows}

LeastOf(S) == CHOOSE m \in S : \A x \in S : m <= x
GreatestOf(S) == CHOOSE m \in S : \A x \in S : m >= x

\* occurrences of z in the sequence s
Count(s, z) == Cardinality({k \in DOMAIN s : s[k] = z})

(* C14: the corners and the redshift sample the root has reduced depend    *)
(* only on the rows of the data: the corners are the per-axis extremes of  *)
(* the projections of all rows of all workers, the sample holds every      *)
(* row's redshift as often as the rows do, and without rows the corners    *)
(* stay at their infinite start values and the sample is empty.            *)
C14_RowsOnly ==
    Reduced =>
        /\ \A z \in {c[3] : c \in CoordRows} :
              Count(redshifts[Root], z) = Count(LastCol(DataRows), z)
        /\ Len(redshifts[Root]) = Len(DataRows)
        /\ IF DataRows = <<>>
           THEN /\ coords_min[Root] = <<Inf, Inf, Inf>>
                /\ coords_max[Root] = <<-Inf, -Inf, -Inf>>
           ELSE \A i \in Axes :
                  /\ coords_min[Root][i] = LeastOf({c[i] : c \in Projections})
                  /\ coords_max[Root][i] = GreatestOf({c[i] : c \in Projections})

\* the root has reduced the corners of a data set of which one worker's
\* shard held two different rows and another worker's none
C14_Witness ==
    /\ Reduced
    /\ \E w, v \in Workers :
          /\ Len(seen[w]) = 2 /\ seen[w][1] # seen[w][2]
          /\ seen[v] = <<>>

C15_Step ==
    \A w \in Workers : Constructed(w) =>
        /\ BoxSize'[w] = BoxSize[w]
        /\ offset'[w] = offset[w]
        /\ nbar'[w] = nbar[w]

(* C15: once construction has completed on a worker, no set_source or read *)
(* call, failing or not, changes its BoxSize, offset or nbar.              *)
C15_GeometryFrozen == [][C15_Step]_vars

\* a worker has selected the randoms, completed a read pass that yielded a
\* chunk, and had a further call fail; it still holds a geometry
C15_Witness ==
    \E w \in Workers :
        /\ ip[w] = 3 /\ Len(hist[w]) = 3
        /\ hist[w][1].op = SetSourceOp("randoms")
        /\ IsRead(w, 2) /\ hist[w][2].ret = "ok" /\ hist[w][2].nb > 0
        /\ hist[w][3].ret \notin {"", "ok"}
        /\ offset[w] # NoneVec /\ BoxSize[w] = UserBoxSize /\ nbar[w] = FileNbar

SixCollectives == <<"gather", "gather", "gather", "bcast", "bcast", "bcast">>

\* __init__ has returned on worker w after three gathers and three bcasts,
\* with BoxSize, offset and nbar set
Done(w) ==
    /\ Constructed(w)
    /\ coll[w] = SixCollectives
    /\ BoxSize[w] # NoneVec /\ offset[w] # NoneVec /\ nbar[w] # NoNbar

(* C16: with a cosmology, fsky or a supplied nbar, and finite streams,     *)
(* construction terminates on every worker, after exactly three gathers    *)
(* followed by three bcasts and with BoxSize, offset and nbar set,         *)
(* whatever the chunks and rows of each worker's shard.                    *)
C16_Terminates == <>(\A w \in Workers : Done(w))

(* C17: the histogram loses no sample: the Nbins interior counts sum to    *)
(* the number of samples.                                                  *)
C17_NoSampleLost ==
    zhist.N # <<>> => Sum(zhist.N) = Len(zhist.redshift)

\* the Weight column the claim expects for the rows of an upstream chunk
ExpectedWeight(chunk) ==
    IF cfg.compute_fkp_weights
    THEN [i \in DOMAIN chunk.coords |->
            Frac(1, 1 + NbarAt(nbar[Root], chunk.coords[i][3]) * cfg.P0_fkp[1])]
    ELSE [i \in DOMAIN chunk.weight |-> Frac(chunk.weight[i], 1)]

\* the place of the first column called name in a column list (0 if none)
Place(cols, name) ==
    IF \E c \in DOMAIN cols : cols[c] = name
    THEN CHOOSE c \in DOMAIN cols : cols[c] = name /\ \A d \in 1 .. (c - 1) : cols[d] # name
    ELSE 0

(* C18: on the root every Weight column of a yielded chunk is the upstream *)
(* chunk's Weight unchanged when FKP weighting is off, and                 *)
(* 1/(1 + Nbar*P0_fkp) for the chunk's own Nbar values when it is on,      *)
(* whatever other columns are requested.                                   *)
C18_WeightColumn ==
    out[Root] # <<>> =>
        \A c \in DOMAIN out[Root] : gen[Root].cols[c] = "Weight" =>
            /\ out[Root][c].rows = ExpectedWeight(upchunk)
            /\ ~cfg.compute_fkp_weights => out[Root][c].dtype = UpWeightDtype(gen[Root].src)
            /\ (cfg.compute_fkp_weights /\ Place(gen[Root].cols, "Nbar") > 0) =>
                  LET nb == out[Root][Place(gen[Root].cols, "Nbar")].rows
                  IN  out[Root][c].rows =
                        [i \in DOMAIN nb |-> Frac(1, 1 + nb[i] * cfg.P0_fkp[1])]

\* the root has yielded a one-row chunk of Nbar and Weight under FKP weighting
C18_Witness ==
    /\ cfg.compute_fkp_weights
    /\ gen[Root].cols = <<"Nbar", "Weight">>
    /\ Len(out[Root]) = 2 /\ Len(out[Root][2].rows) = 1
    /\ out[Root][2].rows[1] # Frac(upchunk.weight[1], 1)

\* the array the claim expects on the root for a column, given the upstream chunk
ExpectedColumn(name, chunk) ==
    CASE name = "Position" ->
           _to_cartesian(chunk.coords, Negated(offset[Root]))
      [] name = "Nbar" ->
           [i \in DOMAIN chunk.coords |-> NbarAt(nbar[Root], chunk.coords[i][3])]
      [] OTHER -> ExpectedWeight(chunk)

\* the per-row shape of a column
RowShapeOf(name) == IF name = "Position" THEN <<3>> ELSE <<>>

(* C19: every chunk yielded by read, on every worker, has exactly one      *)
(* array per requested column, in request order: the i-th array has the    *)
(* per-row shape of the i-th requested column, and on the root it holds    *)
(* that column's values.                                                   *)
C19_OneArrayPerColumn ==
    \A w \in Workers : out[w] # <<>> =>
        /\ Len(out[w]) = Len(gen[w].cols)
        /\ \A c \in DOMAIN out[w] : c \in DOMAIN gen[w].cols =>
              /\ out[w][c].rowshape = RowShapeOf(gen[w].cols[c])
              /\ w = Root => out[w][c].rows = ExpectedColumn(gen[w].cols[c], upchunk)

\* the root yields a chunk in this step
RootYields == /\ Len(hist'[Root]) = Len(hist[Root])
              /\ Len(hist[Root]) > 0
              /\ Len(hist'[Root][Cur(Root)].metas) = Len(hist[Root][Cur(Root)].metas) + 1

C20_Step ==
    /\ \A w \in Workers :
          /\ (gen[w].st # "none" /\ gen'[w].st # "none") => gen'[w].src = gen[w].src
          /\ (gen[w].st = "none" /\ gen'[w].st # "none") => gen'[w].src = source[w]
    /\ RootYields =>
          \A c \in DOMAIN out'[Root] : gen[Root].cols[c] = "Weight" =>
              out'[Root][c].dtype = UpWeightDtype(gen[Root].src)

(* C20: all chunks of one read pass come from the source that was active   *)
(* when the pass started: a set_source call made between two chunks of a   *)
(* pass does not change the source the remaining chunks are drawn from; it *)
(* takes effect for the passes started afterwards.                         *)
C20_OneSourcePerPass == [][C20_Step]_vars

\* the root switched the source after the first chunk of a pass over Weight
\* columns and has then yielded the second chunk of that pass
C20_Witness ==
    /\ gen[Root].st = "loop" /\ gen[Root].mid = 1
    /\ Len(hist[Root][Cur(Root)].metas) = 2
    /\ gen[Root].cols[1] = "Weight"
    /\ source[Root] # gen[Root].src

(* C21: nbar_fromfile fails with the invalid-argument error when the path  *)
(* does not exist, and for an existing two-column file returns a curve     *)
(* through the file's (z, nbar) pairs.                                     *)
C21_NbarFromFile ==
    load.ret # "" =>
        IF ~load.exists THEN load.ret = "ValueError"
        ELSE /\ load.ret = "ok"
             /\ load.curve # None
             /\ \A i \in DOMAIN load.rows :
                   load.curve.x[i] = load.rows[i][1] /\ load.curve.y[i] = load.rows[i][2]

\* the factor, in hundredths, the claim gives for axis i of a BOSS source
APFactor(b, i) ==
    IF ~b.scaled THEN 100
    ELSE IF b.kind = "Mock" THEN (IF i = 3 THEN QparPct ELSE QperpPct)
    ELSE IF b.rsd = None THEN QperpPct
    ELSE IF i = AxisOf(b.rsd) THEN QparPct ELSE QperpPct

\* positions and BoxSize are multiplied by the same factor on every axis, and
\* by none when scaled is off
SameFactors ==
    boss.st = "read" => \A i \in Axes :
        /\ 100 * boss.BoxSize[i] = boss.BoxSizeIn[i] * APFactor(boss, i)
        /\ boss.pos[i] = F4Q(boss.wrapped[i] * APFactor(boss, i), 100)

\* along the rsd axis of an NSeries source the position is inside the final box
InsideBox ==
    (boss.st = "read" /\ boss.kind = "NSeries" /\ boss.rsd # None) =>
        /\ 0 <= boss.pos[AxisOf(boss.rsd)]
        /\ boss.pos[AxisOf(boss.rsd)] < boss.BoxSize[AxisOf(boss.rsd)]

(* C22: the BOSS challenge sources multiply every axis of the positions by *)
(* the factor they multiply the same axis of BoxSize by, change neither    *)
(* when scaled is off, and NSeries keeps the positions along the rsd axis  *)
(* within [0, BoxSize) of the final box.                                   *)
C22_APScaling == SameFactors /\ InsideBox

====
